---- MODULE Spec2Model ----
(***************************************************************************)
(* Model of the /api/analyze pipeline of backend/server.py:                *)
(* analyze_code -> validate_request -> check_api_keys ->                   *)
(* run_security_analysis (async with create_semgrep_server(), Runner.run)  *)
(* -> format_analysis_response, with the except clause of analyze_code.    *)
(*                                                                         *)
(* One step of the model is the code a request runs between two awaits:    *)
(* requests are asyncio tasks and interleave only at an await.             *)
(***************************************************************************)
EXTENDS Integers, Sequences, FiniteSets, TLC

\* ------------------------------------------------------------- bounds
\* Number of analyze requests in flight in the concurrent specification.
NumReqs == 2
\* Longest request code, in characters.
MaxCodeLen == 2
\* Most issues in one final output of the model.
MaxIssues == 2

\* Runner.run is called without max_turns (server.py line 88), so the agents
\* SDK applies its default bound on model turns.
DEFAULT_MAX_TURNS == 10

Reqs == 1..NumReqs

\* ------------------------------------------------------------- inputs
\* Characters of a request's code; str.strip() removes the whitespace ones.
Whitespace == {" ", "\n"}
Chars == {" ", "x"}
Codes == {c : c \in UNION {[1..n -> Chars] : n \in 0..MaxCodeLen}}
\* The codes the concurrent specification draws from.
SampleCodes == {<<" ">>, <<"x">>}

\* OPENAI_API_KEY in the process environment: unset, empty or set.
EnvValues == {"unset", "", "sk-key"}

\* CVSS scores in tenths (35 is 3.5, 110 is 11.0).
Scores == {35, 110}
Severities == {"low", "critical", "urgent"}
VulnClasses == {"injection", "validation"}
Snippets == {"eval(x)"}

SecurityIssue == [title : VulnClasses, code : Snippets,
                  cvss_score : Scores, severity : Severities]

SeqsUpTo(S, n) == {q : q \in UNION {[1..k -> S] : k \in 0..n}}

SecurityReport ==
    {[summary |-> <<"narrative">>, issues |-> iss] : iss \in SeqsUpTo(SecurityIssue, MaxIssues)}

SampleIssue == [title |-> "injection", code |-> "eval(x)",
                cvss_score |-> 35, severity |-> "low"]
SampleReports == {[summary |-> <<"narrative">>, issues |-> <<SampleIssue>>]}

\* What the model can send as its final output: a payload that has the
\* fields and types of SecurityReport, or one that has not.
ModelOutputs(reports) ==
    {o : o \in {[typed |-> TRUE, report |-> rp] : rp \in reports}
                 \cup {[typed |-> FALSE, report |-> [summary |-> <<>>, issues |-> <<>>]]}}

SampleOutputs == ModelOutputs(SampleReports)
AllOutputs == ModelOutputs(SecurityReport)

\* ------------------------------------------------------------- state
VARIABLES
    env,        \* os.getenv("OPENAI_API_KEY"), process-wide, read-only
    pc,         \* where each request's task is suspended
    code,       \* request.code
    session,    \* the MCP server session create_semgrep_server() gave the request
    agent,      \* the request whose session the request's Agent calls (0: no agent)
    turns,      \* current_turn of Runner.run
    outcome,    \* how the try body of analyze_code ended
    returned,   \* the reports sent back to the request's caller
    failure     \* the HTTPExceptions sent back to the request's caller

vars == <<env, pc, code, session, agent, turns, outcome, returned, failure>>

\* ---------------------------------------------------- pure functions
RECURSIVE lstrip(_)
lstrip(s) ==
    IF s = <<>> THEN s
    ELSE IF Head(s) \in Whitespace THEN lstrip(Tail(s)) ELSE s

RECURSIVE rstrip(_)
rstrip(s) ==
    IF s = <<>> THEN s
    ELSE IF s[Len(s)] \in Whitespace THEN rstrip(SubSeq(s, 1, Len(s) - 1)) ELSE s

\* str.strip()
strip(s) == rstrip(lstrip(s))

NoError == [status |-> 0, detail |-> <<>>]
HTTPException(status, detail) == [status |-> status, detail |-> detail]

validate_request_nostrip(c) ==
    IF c = <<>> THEN HTTPException(400, <<"No code provided for analysis">>)
    ELSE NoError

\* validate_request: raises 400 when request.code.strip() is empty.
validate_request(c) ==
    IF strip(c) = <<>> THEN HTTPException(400, <<"No code provided for analysis">>)
    ELSE NoError

\* check_api_keys: raises 500 when the key is unset or empty.
check_api_keys(e) ==
    IF e \in {"unset", ""} THEN HTTPException(500, <<"OpenAI API key not configured">>)
    ELSE NoError

request_checks_keys_first(c, e) ==
    IF check_api_keys(e) # NoError THEN check_api_keys(e) ELSE validate_request(c)

\* Lines 106-107 of analyze_code: validate_request, then check_api_keys; the
\* first exception raised is the one the caller gets.
request_checks(c, e) ==
    IF validate_request(c) # NoError THEN validate_request(c) ELSE check_api_keys(e)

\* str(n) of a non-negative integer, digit by digit.
Digits == <<"0", "1", "2", "3", "4", "5", "6", "7", "8", "9">>

RECURSIVE str(_)
str(n) == IF n < 10 THEN <<Digits[n + 1]>> ELSE str(n \div 10) \o <<Digits[(n % 10) + 1]>>

\* context.enhance_summary: the size of the analysed input, then the model's
\* own summary.
enhance_summary(code_length, summary) ==
    <<"Analyzed">> \o str(code_length) \o <<"characters">> \o summary

\* format_analysis_response: a new summary, the issues as they are.
format_analysis_response(c, report) ==
    [summary |-> enhance_summary(Len(c), report.summary), issues |-> report.issues]

handle_exception_no_message(e) == HTTPException(500, <<"Analysis failed">>)

\* The except clause of analyze_code: any Exception of the try body becomes
\* HTTPException(500, f"Analysis failed: {str(e)}").
handle_exception(e) == HTTPException(500, <<"Analysis failed: ", e>>)

\* --------------------------------------------------- the tool session
\* The object create_semgrep_server() returns, used as an async context
\* manager: not started, open (subprocess running), closed, or failed to start.
NoSession == [state |-> "none", frames |-> 0, users |-> {}]

\* __aenter__: the subprocess is started.
SessionOpen(s) == [s EXCEPT !.state = "open"]

\* __aenter__ raised: no subprocess.
SessionFailed(s) == [s EXCEPT !.state = "failed"]

\* One request frame written to the subprocess on behalf of request r.
SessionInvoke(s, r) == [s EXCEPT !.frames = @ + 1, !.users = @ \cup {r}]

\* __aexit__: the subprocess is terminated and the transport released.
SessionClose(s) == [s EXCEPT !.state = "closed"]

\* How the try body of analyze_code can end.
NoOutcome == [kind |-> "none"]
Return(v) == [kind |-> "return", value |-> v]
Raise(e) == [kind |-> "raise", exc |-> e]
Cancelled == [kind |-> "cancel"]

scope_exit_on_return_only(s, o) == IF o.kind = "return" THEN SessionClose(s) ELSE s

\* Leaving the `async with` block of run_security_analysis: __aexit__ runs
\* whether the block returned, raised or was cancelled.
scope_exit(s, o) == SessionClose(s)

create_security_agent_shared(r) ==
    IF \E q \in Reqs : session[q].state = "open"
    THEN CHOOSE q \in Reqs : session[q].state = "open"
                               /\ \A p \in Reqs : session[p].state = "open" => q <= p
    ELSE r

\* create_security_agent(semgrep): the Agent's only MCP server is the session
\* the request itself opened.
create_security_agent(r) == r

\* The SecurityReport output type as pydantic checks it: the fields present,
\* title/code/severity strings, cvss_score a float. No range, no enumeration.
schema_valid(out) == out.typed

turn_limit_unchecked(t) == FALSE

\* Runner.run: current_turn > max_turns raises MaxTurnsExceeded.
turn_limit_exceeded(t) == t > DEFAULT_MAX_TURNS

\* ------------------------------------------------------------- Init
Init ==
    /\ env \in EnvValues
    /\ pc = [r \in Reqs |-> "idle"]
    /\ code = [r \in Reqs |-> <<>>]
    /\ session = [r \in Reqs |-> NoSession]
    /\ agent = [r \in Reqs |-> 0]
    /\ turns = [r \in Reqs |-> 0]
    /\ outcome = [r \in Reqs |-> NoOutcome]
    /\ returned = [r \in Reqs |-> <<>>]
    /\ failure = [r \in Reqs |-> <<>>]

\* ------------------------------------------------------------- actions
\* POST /api/analyze arrives: validate_request and check_api_keys run before
\* the first await; either raises to the caller, outside the try block.
Analyze(r, codes) ==
    /\ pc[r] = "idle"
    /\ \E c \in codes :
         /\ code' = [code EXCEPT ![r] = c]
         /\ IF request_checks(c, env) # NoError
            THEN /\ failure' = [failure EXCEPT ![r] = Append(@, request_checks(c, env))]
                 /\ pc' = [pc EXCEPT ![r] = "done"]
            ELSE /\ pc' = [pc EXCEPT ![r] = "opening"]
                 /\ UNCHANGED failure
    /\ UNCHANGED <<env, session, agent, turns, outcome, returned>>

\* `async with create_semgrep_server() as semgrep` is entered. On success the
\* agent is created and Runner.run makes its first model call; on failure the
\* exception leaves run_security_analysis and reaches the except clause.
OpenSession(r) ==
    /\ pc[r] = "opening"
    /\ \/ /\ session' = [session EXCEPT ![r] = SessionOpen(@)]
          /\ agent' = [agent EXCEPT ![r] = create_security_agent(r)]
          /\ turns' = [turns EXCEPT ![r] = 1]
          /\ pc' = [pc EXCEPT ![r] = "model"]
          /\ UNCHANGED <<outcome, failure>>
       \/ /\ session' = [session EXCEPT ![r] = SessionFailed(@)]
          /\ outcome' = [outcome EXCEPT ![r] = Raise("ToolStartupError")]
          /\ failure' = [failure EXCEPT ![r] = Append(@, handle_exception("ToolStartupError"))]
          /\ pc' = [pc EXCEPT ![r] = "done"]
          /\ UNCHANGED <<agent, turns>>
    /\ UNCHANGED <<env, code, returned>>

\* The model answers a turn: a tool-call directive, which Runner.run sends to
\* the agent's MCP server; or its final output, which ends the loop (or
\* raises when it does not fit the output type); or the provider fails.
ModelTurn(r, outputs) ==
    /\ pc[r] = "model"
    /\ \/ /\ session' = [session EXCEPT ![agent[r]] = SessionInvoke(@, r)]
          /\ pc' = [pc EXCEPT ![r] = "tool"]
          /\ UNCHANGED outcome
       \/ /\ \E out \in outputs :
               outcome' = [outcome EXCEPT ![r] =
                              IF schema_valid(out) THEN Return(out.report)
                              ELSE Raise("ModelBehaviorError")]
          /\ pc' = [pc EXCEPT ![r] = "exiting"]
          /\ UNCHANGED session
       \/ /\ outcome' = [outcome EXCEPT ![r] = Raise("ModelUnavailableError")]
          /\ pc' = [pc EXCEPT ![r] = "exiting"]
          /\ UNCHANGED session
    /\ UNCHANGED <<env, code, agent, turns, returned, failure>>

\* The tool call returns: Runner.run starts the next turn, unless that turn
\* is past the limit; or the call fails and the exception leaves Runner.run.
ToolResult(r) ==
    /\ pc[r] = "tool"
    /\ \/ IF turn_limit_exceeded(turns[r] + 1)
          THEN /\ outcome' = [outcome EXCEPT ![r] = Raise("MaxTurnsExceeded")]
               /\ pc' = [pc EXCEPT ![r] = "exiting"]
               /\ UNCHANGED turns
          ELSE /\ turns' = [turns EXCEPT ![r] = @ + 1]
               /\ pc' = [pc EXCEPT ![r] = "model"]
               /\ UNCHANGED outcome
       \/ /\ outcome' = [outcome EXCEPT ![r] = Raise("ToolTimeoutError")]
          /\ pc' = [pc EXCEPT ![r] = "exiting"]
          /\ UNCHANGED turns
    /\ UNCHANGED <<env, code, session, agent, returned, failure>>

\* The request's task is cancelled while it awaits the model or the tool:
\* CancelledError is raised at the await, inside the `async with` block.
Cancel(r) ==
    /\ pc[r] \in {"model", "tool"}
    /\ outcome' = [outcome EXCEPT ![r] = Cancelled]
    /\ pc' = [pc EXCEPT ![r] = "exiting"]
    /\ UNCHANGED <<env, code, session, agent, turns, returned, failure>>

\* The `async with` block is left and __aexit__ has run. A returned report is
\* formatted and sent; an Exception is turned into the 500 of the except
\* clause; CancelledError is no Exception and passes the except clause.
ExitSession(r) ==
    /\ pc[r] = "exiting"
    /\ session' = [session EXCEPT ![r] = scope_exit(@, outcome[r])]
    /\ agent' = [agent EXCEPT ![r] = 0]
    /\ CASE outcome[r].kind = "return" ->
              /\ returned' = [returned EXCEPT ![r] =
                                Append(@, format_analysis_response(code[r], outcome[r].value))]
              /\ pc' = [pc EXCEPT ![r] = "done"]
              /\ UNCHANGED failure
         [] outcome[r].kind = "raise" ->
              /\ failure' = [failure EXCEPT ![r] = Append(@, handle_exception(outcome[r].exc))]
              /\ pc' = [pc EXCEPT ![r] = "done"]
              /\ UNCHANGED returned
         [] OTHER ->
              /\ pc' = [pc EXCEPT ![r] = "cancelled"]
              /\ UNCHANGED <<returned, failure>>
    /\ UNCHANGED <<env, code, turns, outcome>>

\* ------------------------------------------------------ specifications
\* Concurrent requests, each with a code and model outputs from the samples.
Next ==
    \E r \in Reqs :
        \/ Analyze(r, SampleCodes)
        \/ OpenSession(r)
        \/ ModelTurn(r, SampleOutputs)
        \/ ToolResult(r)
        \/ Cancel(r)
        \/ ExitSession(r)

Spec == Init /\ [][Next]_vars

\* One request, with every code and every model output of the bounds.
NextOne ==
    \/ Analyze(1, Codes)
    \/ OpenSession(1)
    \/ ModelTurn(1, AllOutputs)
    \/ ToolResult(1)
    \/ Cancel(1)
    \/ ExitSession(1)

SpecOne == Init /\ [][NextOne]_vars

\* --------------------------------------------------------- properties
OnlyWhitespace(c) == \A i \in 1..Len(c) : c[i] \in Whitespace
KeyMissing == env \in {"unset", ""}

\* C1: a request whose code is empty or only whitespace is rejected with
\* status 400 and nothing else happens for it: its session is never started,
\* no agent is created and no model turn is taken.
EmptyCodeRejectedFirst ==
    \A r \in Reqs :
        (pc[r] # "idle" /\ OnlyWhitespace(code[r])) =>
            /\ pc[r] = "done"
            /\ failure[r] = <<HTTPException(400, <<"No code provided for analysis">>)>>
            /\ returned[r] = <<>>
            /\ session[r] = NoSession
            /\ agent[r] = 0
            /\ turns[r] = 0

EmptyCodeRejectedWitness ==
    \E r \in Reqs :
        /\ pc[r] = "done"
        /\ Len(code[r]) > 0
        /\ OnlyWhitespace(code[r])
        /\ Len(failure[r]) = 1
        /\ failure[r][1].status = 400

\* C2: the tool subprocess of a request receives at most one request frame.
ToolInvokedAtMostOnce == \A r \in Reqs : session[r].frames <= 1

DegradesOnStartFailure ==
    \A r \in Reqs :
        (session[r].state = "failed" /\ pc[r] = "done") =>
            failure[r] = <<>> /\ Len(returned[r]) = 1

\* Severity banding of a score in tenths.
Band(score) ==
    IF score >= 90 THEN "critical"
    ELSE IF score >= 70 THEN "high"
    ELSE IF score >= 40 THEN "medium" ELSE "low"

WellFormed(i) ==
    /\ i.cvss_score >= 0 /\ i.cvss_score <= 100
    /\ i.severity \in {"critical", "high", "medium", "low"}
    /\ i.severity = Band(i.cvss_score)

\* C5: every issue of every returned report has a score in [0.0, 10.0] and
\* the severity of its score's band.
IssuesWellFormed ==
    \A r \in Reqs : \A n \in 1..Len(returned[r]) :
        \A k \in 1..Len(returned[r][n].issues) : WellFormed(returned[r][n].issues[k])

\* Two issues are duplicates: the same vulnerability class at the same snippet.
Duplicate(a, b) == a.title = b.title /\ a.code = b.code

\* C6: no returned report holds two issues that are duplicates of each other.
NoDuplicateIssues ==
    \A r \in Reqs : \A n \in 1..Len(returned[r]) :
        \A j, k \in 1..Len(returned[r][n].issues) :
            j < k => ~Duplicate(returned[r][n].issues[j], returned[r][n].issues[k])

ReqState(r) ==
    <<pc[r], code[r], session[r], agent[r], turns[r], outcome[r], returned[r], failure[r]>>

LoopMeasure(r) == 2 * (DEFAULT_MAX_TURNS - turns[r]) + (IF pc[r] = "model" THEN 1 ELSE 0)
InLoop(r) == pc[r] \in {"model", "tool"}

ChecksInOrder ==
    \A r \in Reqs :
        pc[r] # "idle" =>
            /\ OnlyWhitespace(code[r]) => Len(failure[r]) = 1 /\ failure[r][1].status = 400
            /\ (~OnlyWhitespace(code[r]) /\ KeyMissing) =>
                  /\ pc[r] = "done"
                  /\ failure[r] = <<[status |-> 500,
                                     detail |-> <<"OpenAI API key not configured">>]>>
                  /\ returned[r] = <<>>
                  /\ session[r] = NoSession
                  /\ turns[r] = 0

ChecksInOrderWitness ==
    \E r, q \in Reqs :
        /\ KeyMissing
        /\ pc[r] = "done" /\ ~OnlyWhitespace(code[r]) /\ failure[r][1].status = 500
        /\ pc[q] = "done" /\ OnlyWhitespace(code[q]) /\ failure[q][1].status = 400

====
